---- MODULE Spec2Model ----
(***************************************************************************)
(* A model of benchmark-zai: the SSE line parser (_parse_stream_chunk),    *)
(* the streaming timer (stream_response, benchmark_model), the warmup and  *)
(* trial orchestration (warmup, run_benchmarks), the statistics            *)
(* (calculate_stats), the model-list resolver (fetch_available_models,     *)
(* get_models) and the command line entry point (get_api_key, main).       *)
(*                                                                         *)
(* Python values are tagged records, so that a value of any JSON type can  *)
(* sit in any field, as in the dynamically typed source.  An exception is  *)
(* a value too: an operator that models a function which can raise returns *)
(* [kind |-> "raise", exc |-> <the exception class>].                      *)
(***************************************************************************)
EXTENDS Integers, Sequences, FiniteSets, TLC

VARIABLES
    parser,     \* the parser on its own: [line, out]
    cfg,        \* BenchmarkConfig: [models, runs, warmup_runs]
    env,        \* what the transport may do: [lines, max_lines, failures, max_clock]
    pc,         \* where run_benchmarks stands
    mi,         \* index of the model of the for loop of run_benchmarks
    wi,         \* warmup iterations done for this model
    ri,         \* timed trials done for this model
    results,    \* run_benchmarks' result list
    requests,   \* every network request issued so far, in order
    inflight,   \* requests open now
    nlines,     \* lines the open response has delivered
    stream,     \* those lines, in order
    clock,      \* the last value time.perf_counter() returned
    trial,      \* the locals of benchmark_model
    exc,        \* the exception that left the program, if any
    stats,      \* calculate_stats on its own: [inp, out]
    fetch,      \* fetch_available_models on its own: [resp, out]
    FALLBACK_MODELS,    \* the module-level list of models.py
    models,     \* main's resolved model list
    all_stats,  \* main's list of ModelStats
    args,       \* main's parsed arguments, as far as kept: [list_models]
    api_key,    \* main's resolved credential
    exit_code   \* what main returned

runvars ==
    <<cfg, env, pc, mi, wi, ri, results, requests, inflight, nlines, stream, clock, trial, exc>>
mainvars == <<FALLBACK_MODELS, args, models, all_stats, api_key, exit_code>>
vars == <<parser, stats, fetch, runvars, mainvars>>

(***************************************************************************)
(* Python / JSON values.                                                   *)
(***************************************************************************)
None == [t |-> "null"]
JInt(n) == [t |-> "int", n |-> n]
JStr(s) == [t |-> "str", s |-> s]
JArr(a) == [t |-> "arr", a |-> a]
JObj(o) == [t |-> "obj", o |-> o]

\* A key that a JSON object does not carry (used only to build documents).
Absent == [t |-> "absent"]

EmptyDict == JObj(<<>>)

\* bool(v) of Python: None, 0, "", [] and {} are falsy.
Truthy(v) ==
    CASE v.t = "null" -> FALSE
      [] v.t = "int" -> v.n # 0
      [] v.t = "str" -> v.s # ""
      [] v.t = "arr" -> v.a # <<>>
      [] v.t = "obj" -> DOMAIN v.o # {}

Raise(e) == [kind |-> "raise", exc |-> e]
Ok(v) == [kind |-> "ok", v |-> v]

\* v.get(key, default): only a dict has .get.
DictGet(v, key, default) ==
    IF v.t # "obj" THEN Raise("AttributeError")
    ELSE IF key \in DOMAIN v.o THEN Ok(v.o[key]) ELSE Ok(default)

\* v[0]
Index0(v) ==
    CASE v.t = "arr" -> IF v.a = <<>> THEN Raise("IndexError") ELSE Ok(v.a[1])
      [] v.t = "str" -> IF v.s = "" THEN Raise("IndexError") ELSE Ok(JStr(v.s))
      [] v.t = "obj" -> Raise("KeyError")
      [] OTHER -> Raise("TypeError")

\* b + a: the operands the wrong way round.
PyAddSwapped(a, b) ==
    CASE a.t = "str" /\ b.t = "str" -> Ok(JStr(b.s \o a.s))
      [] a.t = "int" /\ b.t = "int" -> Ok(JInt(b.n + a.n))
      [] a.t = "arr" /\ b.t = "arr" -> Ok(JArr(b.a \o a.a))
      [] OTHER -> Raise("TypeError")

\* a + b
PyAdd(a, b) ==
    CASE a.t = "str" /\ b.t = "str" -> Ok(JStr(a.s \o b.s))
      [] a.t = "int" /\ b.t = "int" -> Ok(JInt(a.n + b.n))
      [] a.t = "arr" /\ b.t = "arr" -> Ok(JArr(a.a \o b.a))
      [] OTHER -> Raise("TypeError")

(***************************************************************************)
(* Lines.  A line is a sequence of elements: a character Ch(c), a byte     *)
(* that is not valid UTF-8 (BadByte), or Js(v), which stands for the       *)
(* characters of the JSON text of the document v.                          *)
(***************************************************************************)
Ch(c) == [k |-> "ch", c |-> c]
Js(v) == [k |-> "js", v |-> v]
BadByte == [k |-> "byte", c |-> "0xFF"]
ReplacementChar == Ch("U+FFFD")

RECURSIVE Chars(_)
Chars(s) == IF s = <<>> THEN <<>> ELSE <<Ch(Head(s))>> \o Chars(Tail(s))

Whitespace == {Ch(" "), Ch("\t"), Ch("\n"), Ch("\r")}

DATA_PREFIX == Chars(<<"d", "a", "t", "a", ":", " ">>)
DONE_LINE == DATA_PREFIX \o Chars(<<"[", "D", "O", "N", "E", "]">>)

\* bytes.decode("utf-8", errors="replace")
decode(line) ==
    [i \in DOMAIN line |-> IF line[i] = BadByte THEN ReplacementChar ELSE line[i]]

RECURSIVE lstrip(_)
lstrip(s) == IF s # <<>> /\ Head(s) \in Whitespace THEN lstrip(Tail(s)) ELSE s

RECURSIVE rstrip(_)
rstrip(s) ==
    IF s # <<>> /\ s[Len(s)] \in Whitespace THEN rstrip(SubSeq(s, 1, Len(s) - 1)) ELSE s

\* str.strip()
strip(s) == rstrip(lstrip(s))

\* str.startswith(prefix)
startswith(s, prefix) ==
    Len(s) >= Len(prefix) /\ SubSeq(s, 1, Len(prefix)) = prefix

\* json.loads(text): the document when the text is one JSON text, with
\* whitespace allowed around it, and JSONDecodeError otherwise.
json_loads(text) ==
    LET body == strip(text)
    IN  IF Len(body) = 1 /\ body[1].k = "js" THEN Ok(body[1].v)
        ELSE Raise("JSONDecodeError")

(***************************************************************************)
(* StreamChunk and _parse_stream_chunk.                                    *)
(***************************************************************************)
StreamChunk ==
    [content |-> JStr(""), finish_reason |-> None, prompt_tokens |-> JInt(0),
     completion_tokens |-> JInt(0), total_tokens |-> JInt(0)]

Skip == [kind |-> "skip"]
Chunk(c) == [kind |-> "chunk", chunk |-> c]

\* benchmark.py 94-101: the choices part, on a chunk c.
ParseChoices(data, c) ==
    LET choices == DictGet(data, "choices", None)
    IN  IF choices.kind = "raise" THEN choices
        ELSE IF ~Truthy(choices.v) THEN Ok(c)
        ELSE
        LET choice == Index0(choices.v)
        IN  IF choice.kind = "raise" THEN choice
            ELSE
            LET delta == DictGet(choice.v, "delta", EmptyDict)
            IN  IF delta.kind = "raise" THEN delta
                ELSE
                LET content == DictGet(delta.v, "content", JStr(""))
                    reasoning == DictGet(delta.v, "reasoning_content", JStr(""))
                IN  IF content.kind = "raise" THEN content
                    ELSE IF reasoning.kind = "raise" THEN reasoning
                    ELSE
                    LET sum == PyAdd(content.v, reasoning.v)
                        finish == DictGet(choice.v, "finish_reason", None)
                    IN  IF sum.kind = "raise" THEN sum
                        ELSE IF finish.kind = "raise" THEN finish
                        ELSE Ok([c EXCEPT !.content = sum.v,
                                          !.finish_reason = finish.v])

\* benchmark.py 103-107: the usage part, on a chunk c (data is a dict here).
ParseUsage(data, c) ==
    IF "usage" \notin DOMAIN data.o THEN Ok(c)
    ELSE
    LET usage == data.o["usage"]
        p == DictGet(usage, "prompt_tokens", JInt(0))
        q == DictGet(usage, "completion_tokens", JInt(0))
        r == DictGet(usage, "total_tokens", JInt(0))
    IN  IF p.kind = "raise" THEN p
        ELSE Ok([c EXCEPT !.prompt_tokens = p.v, !.completion_tokens = q.v,
                          !.total_tokens = r.v])

\* benchmark.py 92-109
ParsePayload(data) ==
    LET c1 == ParseChoices(data, StreamChunk)
    IN  IF c1.kind = "raise" THEN c1
        ELSE LET c2 == ParseUsage(data, c1.v)
             IN  IF c2.kind = "raise" THEN c2 ELSE Chunk(c2.v)

\* _parse_stream_chunk without its except clause: JSONDecodeError escapes.
ParseUncaught(line) ==
    LET line_str == strip(decode(line))
    IN  IF line_str = <<>> \/ line_str = DONE_LINE THEN Skip
        ELSE IF ~startswith(line_str, DATA_PREFIX) THEN Skip
        ELSE
        LET json_str == SubSeq(line_str, 7, Len(line_str))
            data == json_loads(json_str)
        IN  IF data.kind = "raise" THEN data
            ELSE ParsePayload(data.v)

\* The skip / raise / chunk outcome of one raw line.
_parse_stream_chunk(line) ==
    LET line_str == strip(decode(line))
    IN  IF line_str = <<>> \/ line_str = DONE_LINE THEN Skip
        ELSE IF ~startswith(line_str, DATA_PREFIX) THEN Skip
        ELSE
        LET json_str == SubSeq(line_str, 7, Len(line_str))
            data == json_loads(json_str)
        IN  IF data.kind = "raise" THEN Skip
            ELSE ParsePayload(data.v)

(***************************************************************************)
(* The lines the parser is tried on.                                       *)
(***************************************************************************)
Field(key, v) == IF v = Absent THEN <<>> ELSE key :> v

ContentValues == {Absent, None, JStr(""), JStr("Hello")}
ReasoningValues == {Absent, None, JStr("Hm")}
FinishValues == {Absent, None, JStr("stop")}
CountValues == {Absent, None, JInt(0), JInt(20)}

Deltas ==
    {Absent, None, JInt(5)} \cup
    {JObj(Field("content", c) @@ Field("reasoning_content", r)) :
        c \in ContentValues, r \in ReasoningValues}

Choices ==
    {JInt(5), None} \cup
    {JObj(Field("delta", d) @@ Field("finish_reason", f)) :
        d \in Deltas, f \in FinishValues}

ChoicesValues ==
    {Absent, None, JInt(5), JStr("x"), JArr(<<>>), EmptyDict} \cup
    {JArr(<<c>>) : c \in Choices}

UsageValues ==
    {Absent, None, JInt(5), JArr(<<>>)} \cup
    {JObj(Field("prompt_tokens", p) @@ Field("completion_tokens", q)
          @@ Field("total_tokens", r)) :
        p \in {Absent, JInt(10)}, q \in CountValues, r \in {Absent, JInt(30)}}

JsonDocs ==
    {None, JInt(5), JStr("x"), JArr(<<>>), JArr(<<EmptyDict>>)} \cup
    {JObj(Field("choices", c) @@ Field("usage", u)) :
        c \in ChoicesValues, u \in UsageValues}

Leads == {<<>>, <<Ch(" ")>>}
Heads ==
    {DATA_PREFIX, Chars(<<"d", "a", "t", "a", ":">>), <<>>,
     Chars(<<"e", "v", "e", "n", "t", ":", " ">>), <<Ch(":"), Ch(" ")>>,
     <<BadByte>>, DATA_PREFIX \o <<Ch(" ")>>}
Bodies ==
    {<<>>, Chars(<<"[", "D", "O", "N", "E", "]">>),
     Chars(<<"{", "i", "n", "v", "a", "l", "i", "d", "}">>),
     Chars(<<"s", "o", "m", "e">>), <<BadByte>>} \cup
    {<<Js(v)>> : v \in JsonDocs} \cup
    {<<Js(EmptyDict), Ch("x")>>, <<Js(EmptyDict), Js(EmptyDict)>>}
Trails == {<<>>, <<Ch("\n")>>}

ParseLines == {l \o h \o b \o t : l \in Leads, h \in Heads, b \in Bodies, t \in Trails}

(***************************************************************************)
(* The parser on its own: a line is drawn, then parsed.                    *)
(***************************************************************************)
Pending == [kind |-> "pending"]

ParserIdle == [line |-> <<>>, out |-> [kind |-> "idle"]]

ParseLine ==
    /\ parser.out = Pending
    /\ parser' = [parser EXCEPT !.out = _parse_stream_chunk(parser.line)]
    /\ UNCHANGED <<stats, fetch, runvars, mainvars>>

ParseNext == ParseLine

(***************************************************************************)
(* Floats are exact rationals [num, den], den > 0, in lowest terms.        *)
(***************************************************************************)
Abs(n) == IF n < 0 THEN -n ELSE n

RECURSIVE GCD(_, _)
GCD(a, b) == IF b = 0 THEN a ELSE GCD(b, a % b)

Rat(n, d) ==
    LET g == GCD(Abs(n), Abs(d))
        sgn == IF d < 0 THEN -1 ELSE 1
    IN  [num |-> sgn * (n \div g), den |-> sgn * (d \div g)]

Float(n) == Rat(n, 1)
RatAdd(a, b) == Rat(a.num * b.den + b.num * a.den, a.den * b.den)
RatSub(a, b) == Rat(a.num * b.den - b.num * a.den, a.den * b.den)
RatMul(a, b) == Rat(a.num * b.num, a.den * b.den)
RatDivInt(a, n) == Rat(a.num, a.den * n)

(***************************************************************************)
(* The transport: the lines a response may carry and the ways a request    *)
(* may fail (httpx.HTTPStatusError, httpx.RequestError).                   *)
(***************************************************************************)
DataLine(doc) == DATA_PREFIX \o <<Js(doc)>>

ContentLine ==
    DataLine(JObj("choices" :> JArr(<<JObj(
        "delta" :> JObj("content" :> JStr("Hello")) @@ "finish_reason" :> None)>>)))
ReasoningLine ==
    DataLine(JObj("choices" :> JArr(<<JObj(
        "delta" :> JObj("reasoning_content" :> JStr("Hm")))>>)))
FinishLine ==
    DataLine(JObj("choices" :> JArr(<<JObj(
        "delta" :> EmptyDict @@ "finish_reason" :> JStr("stop"))>>)))
UsageLine(p, q, r) ==
    DataLine(JObj("choices" :> JArr(<<>>) @@ "usage" :> JObj(
        "prompt_tokens" :> JInt(p) @@ "completion_tokens" :> JInt(q)
        @@ "total_tokens" :> JInt(r))))
NullUsageLine == DataLine(JObj("choices" :> JArr(<<>>) @@ "usage" :> None))
BlankLine == <<Ch(" ")>>
CommentLine == Chars(<<":", " ", "k", "e", "e", "p">>)

StatusError(code) == [kind |-> "status", code |-> code]
RequestError(text) == [kind |-> "request", text |-> text]

Failures ==
    {StatusError(401), StatusError(500), RequestError("timed out"), RequestError("")}

\* benchmark.py 155-158: the APIError stream_response raises for a failure.
APIErrorMessage(f) ==
    IF f.kind = "status" THEN "API request failed: " \o ToString(f.code)
    ELSE "Request error: " \o f.text

(***************************************************************************)
(* stream_response: what one delivered line does to the consumer.          *)
(***************************************************************************)
\* benchmark.py 150-154: a blank line and a skipped line yield nothing.
stream_response_line(line) ==
    IF strip(line) = <<>> THEN Skip ELSE _parse_stream_chunk(line)

(***************************************************************************)
(* benchmark_model.                                                        *)
(***************************************************************************)
NoTrial == [active |-> FALSE]

\* benchmark.py 176-181
TrialLocals(model, now) ==
    [active |-> TRUE, model |-> model, start_time |-> now, ttft_time |-> None,
     completion_tokens |-> 0, prompt_tokens |-> 0, total_tokens |-> 0,
     content_length |-> 0]

\* len(v)
PyLen(v) ==
    CASE v.t = "str" -> Ok(Len(v.s))
      [] v.t = "arr" -> Ok(Len(v.a))
      [] v.t = "obj" -> Ok(Cardinality(DOMAIN v.o))
      [] OTHER -> Raise("TypeError")

\* The loop body with the counters taken from every chunk, zero or not.
ConsumeResetting(t, chunk, now) ==
    LET t1 == IF Truthy(chunk.content) /\ t.ttft_time = None
              THEN [t EXCEPT !.ttft_time = JInt(now)] ELSE t
        n == IF Truthy(chunk.content) THEN PyLen(chunk.content) ELSE Ok(0)
    IN  IF n.kind = "raise" THEN n
        ELSE Ok([t1 EXCEPT
                  !.content_length = @ + n.v,
                  !.prompt_tokens = chunk.prompt_tokens.n,
                  !.completion_tokens = chunk.completion_tokens.n,
                  !.total_tokens = chunk.total_tokens.n])

\* The loop body with the timestamp taken at every chunk with content.
ConsumeOverwriting(t, chunk, now) ==
    LET t1 == IF Truthy(chunk.content)
              THEN [t EXCEPT !.ttft_time = JInt(now)] ELSE t
        n == IF Truthy(chunk.content) THEN PyLen(chunk.content) ELSE Ok(0)
    IN  IF n.kind = "raise" THEN n
        ELSE Ok([t1 EXCEPT
                  !.content_length = @ + n.v,
                  !.prompt_tokens =
                      IF Truthy(chunk.prompt_tokens) THEN chunk.prompt_tokens.n ELSE @,
                  !.completion_tokens =
                      IF Truthy(chunk.completion_tokens)
                      THEN chunk.completion_tokens.n ELSE @,
                  !.total_tokens =
                      IF Truthy(chunk.total_tokens) THEN chunk.total_tokens.n ELSE @])

\* benchmark.py 185-196: the loop body on one chunk; now is the value
\* perf_counter() returns if it is read.
Consume(t, chunk, now) ==
    LET t1 == IF Truthy(chunk.content) /\ t.ttft_time = None
              THEN [t EXCEPT !.ttft_time = JInt(now)] ELSE t
        n == IF Truthy(chunk.content) THEN PyLen(chunk.content) ELSE Ok(0)
    IN  IF n.kind = "raise" THEN n
        ELSE Ok([t1 EXCEPT
                  !.content_length = @ + n.v,
                  !.prompt_tokens =
                      IF Truthy(chunk.prompt_tokens) THEN chunk.prompt_tokens.n ELSE @,
                  !.completion_tokens =
                      IF Truthy(chunk.completion_tokens)
                      THEN chunk.completion_tokens.n ELSE @,
                  !.total_tokens =
                      IF Truthy(chunk.total_tokens) THEN chunk.total_tokens.n ELSE @])

ReadsClock(t, chunk) == Truthy(chunk.content) /\ t.ttft_time = None

Max(a, b) == IF a >= b THEN a ELSE b

MS_PER_S == 1000
CHARS_PER_TOKEN == 4

\* The result with the estimate left at content_length // 4, without max.
SuccessResultNoFloor(t, end_time) ==
    LET ttft_time == IF t.ttft_time = None THEN JInt(end_time) ELSE t.ttft_time
        ttft_ms == (ttft_time.n - t.start_time) * MS_PER_S
        total_latency_ms == (end_time - t.start_time) * MS_PER_S
        generation_time ==
            IF Truthy(ttft_time) THEN end_time - ttft_time.n
            ELSE end_time - t.start_time
        completion_tokens ==
            IF t.completion_tokens = 0 /\ t.content_length > 0
            THEN t.content_length \div CHARS_PER_TOKEN
            ELSE t.completion_tokens
        generation_speed ==
            IF generation_time > 0 THEN Rat(completion_tokens, generation_time)
            ELSE Float(0)
    IN  [model |-> t.model, ttft_ms |-> Float(ttft_ms),
         generation_speed |-> generation_speed,
         total_latency_ms |-> Float(total_latency_ms),
         prompt_tokens |-> t.prompt_tokens, completion_tokens |-> completion_tokens,
         total_tokens |-> t.total_tokens, success |-> TRUE, error |-> None]

\* benchmark.py 198-228
SuccessResult(t, end_time) ==
    LET ttft_time == IF t.ttft_time = None THEN JInt(end_time) ELSE t.ttft_time
        ttft_ms == (ttft_time.n - t.start_time) * MS_PER_S
        total_latency_ms == (end_time - t.start_time) * MS_PER_S
        generation_time ==
            IF Truthy(ttft_time) THEN end_time - ttft_time.n
            ELSE end_time - t.start_time
        completion_tokens ==
            IF t.completion_tokens = 0 /\ t.content_length > 0
            THEN Max(1, t.content_length \div CHARS_PER_TOKEN)
            ELSE t.completion_tokens
        generation_speed ==
            IF generation_time > 0 THEN Rat(completion_tokens, generation_time)
            ELSE Float(0)
    IN  [model |-> t.model, ttft_ms |-> Float(ttft_ms),
         generation_speed |-> generation_speed,
         total_latency_ms |-> Float(total_latency_ms),
         prompt_tokens |-> t.prompt_tokens, completion_tokens |-> completion_tokens,
         total_tokens |-> t.total_tokens, success |-> TRUE, error |-> None]

\* benchmark.py 230-242
FailedResult(t, end_time, message) ==
    [model |-> t.model, ttft_ms |-> Float(0), generation_speed |-> Float(0),
     total_latency_ms |-> Float((end_time - t.start_time) * MS_PER_S),
     prompt_tokens |-> 0, completion_tokens |-> 0, total_tokens |-> 0,
     success |-> FALSE, error |-> JStr(message)]

(***************************************************************************)
(* Bounds of the runs.                                                     *)
(***************************************************************************)
MaxTick == 1
MaxRuns == 2
MaxWarmup == 1

\* time.perf_counter(): monotonic; two reads may return the same value.
Ticks(c) == {n \in c .. c + MaxTick : n <= env.max_clock} \cup {c}

Request(kind, model) == [kind |-> kind, model |-> model]

(***************************************************************************)
(* run_benchmarks, warmup and benchmark_model as steps.                    *)
(***************************************************************************)
\* benchmark.py 277: the for loop takes the next model.
BeginModel ==
    /\ pc = "models"
    /\ mi < Len(cfg.models)
    /\ mi' = mi + 1
    /\ wi' = 0
    /\ ri' = 0
    /\ pc' = "warmup"
    /\ UNCHANGED <<parser, stats, fetch, mainvars, cfg, env, results, requests, inflight, nlines, stream, clock, trial, exc>>

\* benchmark.py 284
ReturnResults ==
    /\ pc = "models"
    /\ mi >= Len(cfg.models)
    /\ pc' = "returned"
    /\ UNCHANGED <<parser, stats, fetch, mainvars, cfg, env, mi, wi, ri, results, requests, inflight, nlines, stream, clock, trial, exc>>

\* benchmark.py 257-259, 142-148: a warmup request is issued.
WarmupStart ==
    /\ pc = "warmup"
    /\ wi < cfg.warmup_runs
    /\ requests' = Append(requests, Request("warmup", cfg.models[mi]))
    /\ inflight' = inflight + 1
    /\ nlines' = 0
    /\ stream' = <<>>
    /\ pc' = "warm_stream"
    /\ UNCHANGED <<parser, stats, fetch, mainvars, cfg, env, mi, wi, ri, results, clock, trial, exc>>

\* benchmark.py 259-260: a line of the warmup response; its chunk is dropped.
WarmupLine ==
    /\ pc = "warm_stream"
    /\ nlines < env.max_lines
    /\ \E line \in env.lines :
        LET r == stream_response_line(line)
        IN  /\ stream' = Append(stream, line)
            /\ IF r.kind = "raise"
               THEN /\ pc' = "raised"
                    /\ exc' = r.exc
                    /\ inflight' = inflight - 1
                    /\ nlines' = nlines + 1
               ELSE /\ nlines' = nlines + 1
                    /\ UNCHANGED <<pc, exc, inflight>>
    /\ UNCHANGED <<parser, stats, fetch, mainvars, cfg, env, mi, wi, ri, results, requests, clock, trial>>

\* benchmark.py 261-262: an APIError of a warmup request is swallowed.
WarmupFails ==
    /\ pc = "warm_stream"
    /\ \E f \in env.failures : f.kind = "status" => nlines = 0
    /\ inflight' = inflight - 1
    /\ wi' = wi + 1
    /\ pc' = "warmup"
    /\ UNCHANGED <<parser, stats, fetch, mainvars, cfg, env, mi, ri, results, requests, nlines, stream, clock, trial, exc>>

\* The warmup response is exhausted.
WarmupEnds ==
    /\ pc = "warm_stream"
    /\ inflight' = inflight - 1
    /\ wi' = wi + 1
    /\ pc' = "warmup"
    /\ UNCHANGED <<parser, stats, fetch, mainvars, cfg, env, mi, ri, results, requests, nlines, stream, clock, trial, exc>>

\* benchmark.py 257: the warmup loop is over.
WarmupDone ==
    /\ pc = "warmup"
    /\ wi >= cfg.warmup_runs
    /\ pc' = "runs"
    /\ UNCHANGED <<parser, stats, fetch, mainvars, cfg, env, mi, wi, ri, results, requests, inflight, nlines, stream, clock, trial, exc>>

\* benchmark.py 280-281, 176-184: a timed trial starts and issues its request.
TrialStart ==
    /\ pc = "runs"
    /\ ri < cfg.runs
    /\ \E now \in Ticks(clock) :
        /\ clock' = now
        /\ trial' = TrialLocals(cfg.models[mi], now)
    /\ requests' = Append(requests, Request("trial", cfg.models[mi]))
    /\ inflight' = inflight + 1
    /\ nlines' = 0
    /\ stream' = <<>>
    /\ pc' = "trial_stream"
    /\ UNCHANGED <<parser, stats, fetch, mainvars, cfg, env, mi, wi, ri, results, exc>>

\* benchmark.py 184-196: a line of the trial's response.
TrialLine ==
    /\ pc = "trial_stream"
    /\ nlines < env.max_lines
    /\ \E line \in env.lines :
        LET r == stream_response_line(line)
        IN  /\ stream' = Append(stream, line)
            /\ CASE r.kind = "raise" ->
                        /\ pc' = "raised"
                        /\ exc' = r.exc
                        /\ inflight' = inflight - 1
                        /\ UNCHANGED <<trial, clock>>
                  [] r.kind = "skip" -> UNCHANGED <<pc, exc, inflight, trial, clock>>
                  [] r.kind = "chunk" ->
                        \E now \in Ticks(clock) :
                            LET t == Consume(trial, r.chunk, now)
                            IN  /\ clock' = IF ReadsClock(trial, r.chunk) THEN now ELSE clock
                                /\ IF t.kind = "raise"
                                   THEN /\ pc' = "raised"
                                        /\ exc' = t.exc
                                        /\ inflight' = inflight - 1
                                        /\ UNCHANGED trial
                                   ELSE /\ trial' = t.v
                                        /\ UNCHANGED <<pc, exc, inflight>>
    /\ nlines' = nlines + 1
    /\ UNCHANGED <<parser, stats, fetch, mainvars, cfg, env, mi, wi, ri, results, requests>>

\* A result put at the head of the list.
InsertFirst(rs, r) == <<r>> \o rs

\* benchmark.py 282: results.append(result)
append(rs, r) == Append(rs, r)

\* benchmark.py 230-242, 282: the request fails with an APIError.
TrialFails ==
    /\ pc = "trial_stream"
    /\ \E f \in env.failures, now \in Ticks(clock) :
        /\ f.kind = "status" => nlines = 0
        /\ clock' = now
        /\ results' = append(results, FailedResult(trial, now, APIErrorMessage(f)))
    /\ inflight' = inflight - 1
    /\ trial' = NoTrial
    /\ ri' = ri + 1
    /\ pc' = "runs"
    /\ UNCHANGED <<parser, stats, fetch, mainvars, cfg, env, mi, wi, requests, nlines, stream, exc>>

\* benchmark.py 198-228, 282: the response is exhausted.
TrialEnds ==
    /\ pc = "trial_stream"
    /\ \E now \in Ticks(clock) :
        /\ clock' = now
        /\ results' = append(results, SuccessResult(trial, now))
    /\ inflight' = inflight - 1
    /\ trial' = NoTrial
    /\ ri' = ri + 1
    /\ pc' = "runs"
    /\ UNCHANGED <<parser, stats, fetch, mainvars, cfg, env, mi, wi, requests, nlines, stream, exc>>

\* benchmark.py 280: the trials of this model are over.
RunsDone ==
    /\ pc = "runs"
    /\ ri >= cfg.runs
    /\ pc' = "models"
    /\ UNCHANGED <<parser, stats, fetch, mainvars, cfg, env, mi, wi, ri, results, requests, inflight, nlines, stream, clock, trial, exc>>

RunNext ==
    \/ BeginModel \/ ReturnResults
    \/ WarmupStart \/ WarmupLine \/ WarmupFails \/ WarmupEnds \/ WarmupDone
    \/ TrialStart \/ TrialLine \/ TrialFails \/ TrialEnds \/ RunsDone

\* benchmark.py 274-276: run_benchmarks is entered with config c, when the
\* clock reads origin.
RunEntryFrom(c, e, at, origin) ==
    /\ cfg = c
    /\ env = e
    /\ pc = at
    /\ mi = IF at = "runs" THEN 1 ELSE 0
    /\ wi = 0
    /\ ri = 0
    /\ results = <<>>
    /\ requests = <<>>
    /\ inflight = 0
    /\ nlines = 0
    /\ stream = <<>>
    /\ clock = origin
    /\ trial = NoTrial
    /\ exc = "none"

RunEntry(c, e, at) == RunEntryFrom(c, e, at, 0)

NoConfig == [api_key |-> "", models |-> <<>>, runs |-> 0, warmup_runs |-> 0]
NoEnv == [lines |-> {}, max_lines |-> 0, failures |-> {}, max_clock |-> 0]

RunIdle == RunEntry(NoConfig, NoEnv, "idle")


(***************************************************************************)
(* calculate_stats.                                                        *)
(***************************************************************************)
RECURSIVE Sum(_)
Sum(xs) == IF xs = <<>> THEN Float(0) ELSE RatAdd(Head(xs), Sum(Tail(xs)))

\* statistics.mean
mean(xs) == RatDivInt(Sum(xs), Len(xs))

\* The square root, kept exact: sqrt(0) is 0.0, any other as [sqrt_of].
Sqrt(x) == IF x.num = 0 THEN Float(0) ELSE [sqrt_of |-> x]

\* statistics.stdev: the sample standard deviation (two values at least).
stdev(xs) ==
    LET m == mean(xs)
        sq == [i \in DOMAIN xs |-> RatMul(RatSub(xs[i], m), RatSub(xs[i], m))]
    IN  Sqrt(RatDivInt(Sum(sq), Len(xs) - 1))

\* Every result, failed ones included.
Unfiltered(rs) == rs

\* utils.py 18: the successful results, in order.
Successful(rs) == SelectSeq(rs, LAMBDA r : r.success)

\* The all-failed statistics with the failed runs left out of the count.
ZeroStatsUncounted(rs) ==
    [model |-> IF rs # <<>> THEN rs[1].model ELSE "unknown",
     ttft_avg |-> Float(0), ttft_std |-> Float(0),
     speed_avg |-> Float(0), speed_std |-> Float(0),
     latency_avg |-> Float(0), latency_std |-> Float(0),
     tokens_avg |-> Float(0), runs |-> 0, successful_runs |-> 0]

\* utils.py 20-32: the statistics of a list without a successful result.
ZeroStats(rs) ==
    [model |-> IF rs # <<>> THEN rs[1].model ELSE "unknown",
     ttft_avg |-> Float(0), ttft_std |-> Float(0),
     speed_avg |-> Float(0), speed_std |-> Float(0),
     latency_avg |-> Float(0), latency_std |-> Float(0),
     tokens_avg |-> Float(0), runs |-> Len(rs), successful_runs |-> 0]

\* utils.py 18-50
calculate_stats(rs) ==
    LET successful == Successful(rs)
        ttfts == [i \in DOMAIN successful |-> successful[i].ttft_ms]
        speeds == [i \in DOMAIN successful |-> successful[i].generation_speed]
        latencies == [i \in DOMAIN successful |-> successful[i].total_latency_ms]
        tokens == [i \in DOMAIN successful |-> Float(successful[i].completion_tokens)]
    IN  IF successful = <<>>
        THEN ZeroStats(rs)
        ELSE [model |-> rs[1].model,
              ttft_avg |-> mean(ttfts),
              ttft_std |-> IF Len(ttfts) > 1 THEN stdev(ttfts) ELSE Float(0),
              speed_avg |-> mean(speeds),
              speed_std |-> IF Len(speeds) > 1 THEN stdev(speeds) ELSE Float(0),
              latency_avg |-> mean(latencies),
              latency_std |-> IF Len(latencies) > 1 THEN stdev(latencies) ELSE Float(0),
              tokens_avg |-> mean(tokens),
              runs |-> Len(rs), successful_runs |-> Len(successful)]

(***************************************************************************)
(* calculate_stats on its own: a list of results of one model is drawn,    *)
(* then aggregated.                                                        *)
(***************************************************************************)
MaxResults == 3

\* A successful BenchmarkResult, times in ms and speed in tokens/s.
SuccessOf(m, ttft, speed, latency, tok) ==
    [model |-> m, ttft_ms |-> ttft, generation_speed |-> speed,
     total_latency_ms |-> latency, prompt_tokens |-> 50, completion_tokens |-> tok,
     total_tokens |-> 50 + tok, success |-> TRUE, error |-> None]

\* A failed BenchmarkResult, as benchmark_model builds it.
FailureOf(m, latency, message) ==
    [model |-> m, ttft_ms |-> Float(0), generation_speed |-> Float(0),
     total_latency_ms |-> latency, prompt_tokens |-> 0, completion_tokens |-> 0,
     total_tokens |-> 0, success |-> FALSE, error |-> JStr(message)]

SampleResults(m) ==
    {SuccessOf(m, Rat(501, 2), Rat(426, 5), Float(3200), 256),
     SuccessOf(m, Float(260), Float(82), Float(3300), 255),
     SuccessOf(m, Float(0), Float(0), Float(0), 0),
     FailureOf(m, Float(500), "API request failed: 401"),
     FailureOf(m, Float(0), "Request error: ")}

RECURSIVE ListsUpTo(_, _)
ListsUpTo(S, n) ==
    IF n = 0 THEN {<<>>}
    ELSE LET shorter == ListsUpTo(S, n - 1)
         IN  shorter \cup {Append(l, x) : l \in shorter, x \in S}

StatsIdle == stats = [inp |-> <<>>, out |-> [kind |-> "idle"]]

Aggregate ==
    /\ stats.out = Pending
    /\ stats' = [stats EXCEPT !.out = Ok(calculate_stats(stats.inp))]
    /\ UNCHANGED <<parser, fetch, runvars, mainvars>>

StatsNext == Aggregate

(***************************************************************************)
(* fetch_available_models.  A list object is [fresh, items]: fresh tells   *)
(* a new list from the module-level FALLBACK_MODELS object itself.         *)
(***************************************************************************)
FALLBACK ==
    <<"glm-5", "glm-4.7", "glm-4.7-flash", "glm-4.6", "glm-4.6-air", "glm-4.5",
      "glm-4.5-air">>

\* The model names in the order of Python's string comparison.
CodepointOrder ==
    <<"glm-4.5", "glm-4.5-air", "glm-4.6", "glm-4.6-air", "glm-4.7", "glm-4.7-flash",
      "glm-5">>

Rank(name) == CHOOSE i \in DOMAIN CodepointOrder : CodepointOrder[i] = name

RECURSIVE Insert(_, _)
Insert(x, sortedList) ==
    IF sortedList = <<>> THEN <<x>>
    ELSE IF Rank(x) < Rank(Head(sortedList)) THEN <<x>> \o sortedList
    ELSE <<Head(sortedList)>> \o Insert(x, Tail(sortedList))

\* sorted(names)
RECURSIVE sorted(_)
sorted(names) ==
    IF names = <<>> THEN <<>>
    ELSE Insert(names[Len(names)], sorted(SubSeq(names, 1, Len(names) - 1)))

NewList(items) == [fresh |-> TRUE, items |-> items]

\* list.copy()
copy(items) == NewList(items)

\* The values a for loop over v takes.
PyIter(v) ==
    CASE v.t = "arr" -> Ok(v.a)
      [] v.t = "str" -> Ok(IF v.s = "" THEN <<>> ELSE <<JStr(v.s)>>)
      [] v.t = "obj" -> Ok(<<>>)
      [] OTHER -> Raise("TypeError")

\* benchmark.py 57-61: the ids of the entries, the falsy ones left out (an id
\* is held by its text).
RECURSIVE CollectIds(_)
CollectIds(entries) ==
    IF entries = <<>> THEN Ok(<<>>)
    ELSE LET model_id == DictGet(Head(entries), "id", JStr(""))
             rest == CollectIds(Tail(entries))
         IN  IF model_id.kind = "raise" THEN model_id
             ELSE IF rest.kind = "raise" THEN rest
             ELSE IF Truthy(model_id.v) THEN Ok(<<model_id.v.s>> \o rest.v)
             ELSE rest

FailureResponse(f) == [kind |-> "failure", f |-> f]
BodyResponse(text) == [kind |-> "body", text |-> text]

\* benchmark.py 51-66, on the answer resp of the models endpoint.
fetch_available_models(resp, fallback) ==
    IF resp.kind = "failure" THEN Ok(copy(fallback))
    ELSE
    LET data == json_loads(resp.text)
    IN  IF data.kind = "raise" THEN Ok(copy(fallback))
        ELSE
        LET listed == DictGet(data.v, "data", JArr(<<>>))
        IN  IF listed.kind = "raise" THEN listed
            ELSE
            LET entries == PyIter(listed.v)
            IN  IF entries.kind = "raise" THEN entries
                ELSE
                LET ids == CollectIds(entries.v)
                IN  IF ids.kind = "raise" THEN ids
                    ELSE IF ids.v # <<>> THEN Ok(NewList(sorted(ids.v)))
                    ELSE Ok(copy(fallback))

(***************************************************************************)
(* fetch_available_models on its own: the endpoint's answer is drawn, the  *)
(* function is applied, and its caller may then change the list it got.    *)
(***************************************************************************)
MaxEntries == 2

IdValues == {Absent, None, JStr(""), JStr("glm-5"), JStr("glm-4.7")}
Entries == {None, JInt(5)} \cup {JObj(Field("id", i)) : i \in IdValues}
DataValues ==
    {Absent, None, JInt(5), JStr(""), JStr("x"), EmptyDict} \cup
    {JArr(l) : l \in ListsUpTo(Entries, MaxEntries)}
ModelDocs ==
    {None, JInt(5), JArr(<<>>), JStr("x")} \cup
    {JObj(Field("data", d) @@ Field("object", o)) :
        d \in DataValues, o \in {Absent, JStr("list")}}
Responses ==
    {FailureResponse(f) : f \in Failures} \cup
    {BodyResponse(<<Js(d)>>) : d \in ModelDocs} \cup
    {BodyResponse(<<>>), BodyResponse(Chars(<<"<", "h", "t", "m", "l", ">">>)),
     BodyResponse(<<Js(EmptyDict), Ch("x")>>)}

FetchIdle == fetch = [resp |-> FailureResponse(RequestError("")), out |-> [kind |-> "idle"]]

FetchAlone ==
    /\ fetch.out = Pending
    /\ fetch' = [fetch EXCEPT !.out = fetch_available_models(fetch.resp, FALLBACK_MODELS)]
    /\ UNCHANGED <<parser, stats, runvars, mainvars>>

\* The caller appends to the list it was given: list.append changes the
\* object, which is FALLBACK_MODELS itself unless the list is a new one.
MutateResult ==
    /\ fetch.out.kind = "ok"
    /\ Len(fetch.out.v.items) <= Len(FALLBACK)
    /\ LET changed == Append(fetch.out.v.items, "glm-4.5")
       IN  /\ fetch' = [fetch EXCEPT !.out.v.items = changed]
           /\ FALLBACK_MODELS' = IF fetch.out.v.fresh THEN FALLBACK_MODELS ELSE changed
    /\ UNCHANGED <<parser, stats, runvars, args, models, all_stats, api_key, exit_code>>

FetchNext == FetchAlone \/ MutateResult

(***************************************************************************)
(* main, get_api_key and get_models.                                       *)
(***************************************************************************)
\* cli.py 24-46
get_api_key(key, env_key) ==
    IF Truthy(key) THEN Ok(key.s)
    ELSE IF Truthy(env_key) THEN Ok(env_key.s)
    ELSE Raise("APIKeyError")

\* A --models string is held by its tokens: a model name, "," or " ".
RECURSIVE split(_)
split(tokens) ==
    IF \A i \in DOMAIN tokens : tokens[i] # "," THEN <<tokens>>
    ELSE LET i == CHOOSE j \in DOMAIN tokens :
                    tokens[j] = "," /\ \A k \in 1 .. j - 1 : tokens[k] # ","
         IN  <<SubSeq(tokens, 1, i - 1)>> \o split(SubSeq(tokens, i + 1, Len(tokens)))

RECURSIVE stripSpaces(_)
stripSpaces(tokens) ==
    IF tokens # <<>> /\ Head(tokens) = " " THEN stripSpaces(Tail(tokens))
    ELSE IF tokens # <<>> /\ tokens[Len(tokens)] = " "
    THEN stripSpaces(SubSeq(tokens, 1, Len(tokens) - 1))
    ELSE tokens

\* cli.py 60-61: the names of a truthy --models string (each piece holds
\* one name at most here).
ParseModels(tokens) ==
    LET pieces == split(tokens)
        stripped == [i \in DOMAIN pieces |-> stripSpaces(pieces[i])]
        kept == SelectSeq(stripped, LAMBDA m : m # <<>>)
    IN  [i \in DOMAIN kept |-> kept[i][1]]

\* cli.py 229-233: the keys of stats_by_model, in insertion order.
RECURSIVE ModelKeys(_)
ModelKeys(rs) ==
    IF rs = <<>> THEN <<>>
    ELSE LET before == ModelKeys(SubSeq(rs, 1, Len(rs) - 1))
             m == rs[Len(rs)].model
         IN  IF \E i \in DOMAIN before : before[i] = m THEN before
             ELSE Append(before, m)

\* cli.py 229-235
AllStats(rs) ==
    LET keys == ModelKeys(rs)
    IN  [i \in DOMAIN keys |->
            calculate_stats(SelectSeq(rs, LAMBDA r : r.model = keys[i]))]

MainMaxRuns == 1
MainMaxWarmup == 1
MainMaxLines == 1
MainMaxClock == 0

KeyValues == {None, JStr(""), JStr("k")}
ModelStrings ==
    {None, JArr(<<>>), JArr(<<",">>), JArr(<<"glm-5">>),
     JArr(<<"glm-5", ",", " ", "glm-4.7">>), JArr(<<" ", "glm-5", ",", ",", "glm-5", " ">>)}
MainResponses ==
    {FailureResponse(StatusError(401)),
     BodyResponse(<<Js(JObj("data" :> JArr(<<JObj("id" :> JStr("glm-5")),
                                             JObj("id" :> JStr("glm-4.7"))>>)))>>),
     BodyResponse(<<Js(JObj("data" :> None))>>)}

\* cli.py 189-207, as far as the first network request.
MainStart ==
    /\ pc = "main"
    /\ \E key \in KeyValues, env_key \in KeyValues, list_models \in BOOLEAN,
          models_str \in ModelStrings :
        LET k == get_api_key(key, env_key)
        IN  /\ args' = [list_models |-> list_models]
            /\ IF k.kind = "raise"
               THEN /\ exit_code' = JInt(1)
                    /\ pc' = "exit"
                    /\ UNCHANGED <<api_key, models>>
               ELSE /\ api_key' = k.v
                    /\ UNCHANGED exit_code
                    /\ IF list_models
                       THEN pc' = "list_models" /\ UNCHANGED models
                       ELSE IF Truthy(models_str)
                       THEN pc' = "have_models" /\ models' = ParseModels(models_str.a)
                       ELSE pc' = "get_models" /\ UNCHANGED models
    /\ UNCHANGED <<parser, stats, fetch, FALLBACK_MODELS, all_stats, cfg, env, mi, wi, ri,
                   results, requests, inflight, nlines, stream, clock, trial, exc>>

\* cli.py 201-205 and 63: the models endpoint is asked.
FetchModels ==
    /\ pc \in {"list_models", "get_models"}
    /\ requests' = Append(requests, Request("models", ""))
    /\ \E resp \in MainResponses :
        LET r == fetch_available_models(resp, FALLBACK_MODELS)
        IN  IF r.kind = "raise"
            THEN /\ pc' = "raised"
                 /\ exc' = r.exc
                 /\ UNCHANGED <<models, exit_code>>
            ELSE IF pc = "list_models"
            THEN /\ pc' = "exit"
                 /\ exit_code' = JInt(0)
                 /\ UNCHANGED <<models, exc>>
            ELSE /\ pc' = "have_models"
                 /\ models' = r.v.items
                 /\ UNCHANGED <<exit_code, exc>>
    /\ UNCHANGED <<parser, stats, fetch, FALLBACK_MODELS, args, all_stats, api_key, cfg, env,
                   mi, wi, ri, results, inflight, nlines, stream, clock, trial>>

\* cli.py 209-227: no model ends main; else run_benchmarks is entered.
CheckModels ==
    /\ pc = "have_models"
    /\ IF models = <<>>
       THEN /\ exit_code' = JInt(1)
            /\ pc' = "exit"
            /\ UNCHANGED cfg
       ELSE /\ \E runs \in 0 .. MainMaxRuns, warmup_runs \in 0 .. MainMaxWarmup :
                cfg' = [api_key |-> api_key, models |-> models, runs |-> runs,
                        warmup_runs |-> warmup_runs]
            /\ pc' = "models"
            /\ UNCHANGED exit_code
    /\ UNCHANGED <<parser, stats, fetch, FALLBACK_MODELS, args, models, all_stats, api_key,
                   env, mi, wi, ri, results, requests, inflight, nlines, stream, clock, trial, exc>>

\* cli.py 229-246: the statistics, their display and the optional save.
MainFinish ==
    /\ pc = "returned"
    /\ all_stats' = AllStats(results)
    /\ \E save \in {"none", "writable", "unwritable"} :
        IF save = "unwritable"
        THEN pc' = "raised" /\ exc' = "OSError" /\ UNCHANGED exit_code
        ELSE pc' = "exit" /\ exit_code' = JInt(0) /\ UNCHANGED exc
    /\ UNCHANGED <<parser, stats, fetch, FALLBACK_MODELS, args, models, api_key, cfg, env,
                   mi, wi, ri, results, requests, inflight, nlines, stream, clock, trial>>


MainIdle ==
    /\ FALLBACK_MODELS = FALLBACK
    /\ args = [list_models |-> FALSE]
    /\ models = <<>>
    /\ all_stats = <<>>
    /\ api_key = ""
    /\ exit_code = None

(***************************************************************************)
(* One timed trial on its own, against a transport that may deliver any    *)
(* of TrialLines and fail in any of Failures.                              *)
(***************************************************************************)
TrialMaxLines == 3
TrialMaxClock == 3

\* time.perf_counter() has no defined reference point: its first value may
\* lie before, or at, zero.
ClockOrigins == {-1, 0}

TrialLines ==
    {ContentLine, ReasoningLine, FinishLine, UsageLine(10, 20, 30), UsageLine(11, 0, 0),
     NullUsageLine, BlankLine, DONE_LINE}

TrialInit ==
    /\ parser = ParserIdle
    /\ StatsIdle
    /\ FetchIdle
    /\ MainIdle
    /\ \E origin \in ClockOrigins :
        RunEntryFrom([api_key |-> "k", models |-> <<"glm-5">>, runs |-> 1, warmup_runs |-> 0],
                     [lines |-> TrialLines, max_lines |-> TrialMaxLines,
                      failures |-> Failures, max_clock |-> TrialMaxClock], "runs", origin)

TrialNext == TrialStart \/ TrialLine \/ TrialFails \/ TrialEnds

SpecTrial == TrialInit /\ [][TrialNext]_vars

(***************************************************************************)
(* run_benchmarks on its own, over small configurations.  The clock stands *)
(* still here: latencies are exercised by the single-trial specification.  *)
(***************************************************************************)
RunMaxLines == 1

ModelLists == {<<"glm-5">>, <<"glm-5", "glm-4.7">>, <<"glm-5", "glm-5">>}

RunInit ==
    /\ parser = ParserIdle
    /\ StatsIdle
    /\ FetchIdle
    /\ MainIdle
    /\ \E m \in ModelLists, r \in 0 .. MaxRuns, w \in 0 .. MaxWarmup :
        RunEntry([api_key |-> "k", models |-> m, runs |-> r, warmup_runs |-> w],
                 [lines |-> {ContentLine, NullUsageLine}, max_lines |-> RunMaxLines,
                  failures |-> {StatusError(500), RequestError("timed out")},
                  max_clock |-> 0], "models")

SpecRun == RunInit /\ [][RunNext]_vars

FetchInit ==
    /\ parser = ParserIdle
    /\ StatsIdle
    /\ fetch \in {[resp |-> r, out |-> Pending] : r \in Responses}
    /\ RunIdle
    /\ MainIdle

SpecFetch == FetchInit /\ [][FetchNext]_vars

MainInit ==
    /\ parser = ParserIdle
    /\ StatsIdle
    /\ FetchIdle
    /\ RunEntry(NoConfig,
                [lines |-> {ContentLine, NullUsageLine}, max_lines |-> MainMaxLines,
                 failures |-> {StatusError(401)}, max_clock |-> MainMaxClock], "main")
    /\ MainIdle

MainNext == MainStart \/ FetchModels \/ CheckModels \/ MainFinish \/ RunNext

Spec == MainInit /\ [][MainNext]_vars

StatsInit ==
    /\ parser = ParserIdle
    /\ \E m \in {"glm-5", "glm-4.7"} :
        stats \in {[inp |-> l, out |-> Pending] : l \in ListsUpTo(SampleResults(m), MaxResults)}
    /\ RunIdle
    /\ FetchIdle
    /\ MainIdle

SpecStats == StatsInit /\ [][StatsNext]_vars

ParseInit ==
    /\ parser \in {[line |-> l, out |-> Pending] : l \in ParseLines}
    /\ RunIdle
    /\ StatsIdle
    /\ FetchIdle
    /\ MainIdle

SpecParse == ParseInit /\ [][ParseNext]_vars

(***************************************************************************)
(* The properties.                                                         *)
(***************************************************************************)
Parsed == parser.out.kind \in {"skip", "chunk", "raise"}

\* The text after the marker is one JSON text.
WellFormedJson(text) == Len(strip(text)) = 1 /\ strip(text)[1].k = "js"

\* C1: for every raw line _parse_stream_chunk returns a StreamChunk or None
\* and never raises.
C1_ParseNeverRaises == Parsed => parser.out.kind \in {"skip", "chunk"}

\* C2: a timed trial never raises and always returns a BenchmarkResult; a
\* failed one has every number but total_latency_ms zero and a non-empty
\* error, a successful one has no error.
C2_TrialReturnsResult ==
    /\ pc # "raised"
    /\ \A i \in DOMAIN results :
        LET r == results[i]
        IN  /\ ~r.success =>
                /\ r.ttft_ms = Float(0)
                /\ r.generation_speed = Float(0)
                /\ r.prompt_tokens = 0 /\ r.completion_tokens = 0 /\ r.total_tokens = 0
                /\ r.error # None /\ r.error.s # ""
            /\ r.success => r.error = None

\* C3: run_benchmarks never raises and returns len(config.models) *
\* config.runs results.
C3_RunReturnsAllResults ==
    /\ pc # "raised"
    /\ pc = "returned" => Len(results) = Len(cfg.models) * cfg.runs

RECURSIVE Repeat(_, _)
Repeat(x, n) == IF n <= 0 THEN <<>> ELSE <<x>> \o Repeat(x, n - 1)

\* The requests of a whole run: per model, the warmups, then the trials.
RECURSIVE ExpectedRequests(_, _, _)
ExpectedRequests(ms, warmups, trials) ==
    IF ms = <<>> THEN <<>>
    ELSE Repeat([kind |-> "warmup", model |-> Head(ms)], warmups)
         \o Repeat([kind |-> "trial", model |-> Head(ms)], trials)
         \o ExpectedRequests(Tail(ms), warmups, trials)

IsPrefix(a, b) == Len(a) <= Len(b) /\ SubSeq(b, 1, Len(a)) = a

TrialModels(reqs) ==
    LET ts == SelectSeq(reqs, LAMBDA q : q.kind = "trial")
    IN  [i \in DOMAIN ts |-> ts[i].model]

ResultModels == [i \in DOMAIN results |-> results[i].model]

\* C4: the requests issued so far are the first ones of: per model in list
\* order, warmup_runs warmup requests then runs timed trials; at most one
\* request is open; the results are those of the ended trials, in order; a
\* run that returns has issued them all.
C4_SequentialOrder ==
    LET expected == ExpectedRequests(cfg.models, cfg.warmup_runs, cfg.runs)
        open == IF pc = "trial_stream" THEN 1 ELSE 0
    IN  /\ inflight \in {0, 1}
        /\ IsPrefix(requests, expected)
        /\ Len(results) + open = Len(TrialModels(requests)) \/ pc = "raised"
        /\ IsPrefix(ResultModels, TrialModels(requests))
        /\ pc = "returned" =>
            /\ requests = expected
            /\ inflight = 0
            /\ ResultModels = TrialModels(expected)

C4_Witness ==
    /\ pc = "returned"
    /\ cfg.models = <<"glm-5", "glm-4.7">>
    /\ cfg.runs = 2
    /\ cfg.warmup_runs = 1
    /\ \E i \in DOMAIN results : ~results[i].success

\* The lines of the four skip rules.
SkipLine(line) ==
    LET s == strip(decode(line))
    IN  \/ s = <<>>
        \/ s = DONE_LINE
        \/ Len(s) < 6
        \/ SubSeq(s, 1, 6) # DATA_PREFIX
        \/ ~WellFormedJson(SubSeq(s, 7, Len(s)))

TextOf(obj, key) == IF key \in DOMAIN obj.o THEN obj.o[key].s ELSE ""

IsText(obj, key) == key \in DOMAIN obj.o => obj.o[key].t = "str"

\* A document with a non-empty choices array whose fields have the types
\* of the wire protocol.
TypedChoicesDoc(v) ==
    /\ v.t = "obj"
    /\ "choices" \in DOMAIN v.o
    /\ v.o["choices"].t = "arr"
    /\ v.o["choices"].a # <<>>
    /\ LET c == v.o["choices"].a[1]
       IN  /\ c.t = "obj"
           /\ "delta" \in DOMAIN c.o =>
                /\ c.o["delta"].t = "obj"
                /\ IsText(c.o["delta"], "content")
                /\ IsText(c.o["delta"], "reasoning_content")
    /\ "usage" \in DOMAIN v.o => v.o["usage"].t = "obj"

Aggregated == stats.out.kind = "ok"

NoneSuccessful(rs) == \A i \in DOMAIN rs : ~rs[i].success

\* C7: without a successful result, successful_runs is 0, runs is the
\* length of the list, every average and standard deviation is 0.0, and
\* model is the first result's, "unknown" for the empty list.
C7_AllFailed ==
    Aggregated /\ NoneSuccessful(stats.inp) =>
        LET st == stats.out.v
        IN  /\ st.successful_runs = 0
            /\ st.runs = Len(stats.inp)
            /\ st.ttft_avg = Float(0) /\ st.ttft_std = Float(0)
            /\ st.speed_avg = Float(0) /\ st.speed_std = Float(0)
            /\ st.latency_avg = Float(0) /\ st.latency_std = Float(0)
            /\ st.tokens_avg = Float(0)
            /\ st.model = IF stats.inp = <<>> THEN "unknown" ELSE stats.inp[1].model

C7_Witness ==
    /\ Aggregated
    /\ Len(stats.inp) = 2
    /\ NoneSuccessful(stats.inp)
    /\ stats.inp[1].total_latency_ms = Float(500)

SuccessIndexes(rs) == {i \in DOMAIN rs : rs[i].success}

Averages(st) == <<st.ttft_avg, st.speed_avg, st.latency_avg, st.tokens_avg>>

\* The list with its failed results taken out.
RECURSIVE WithoutFailures(_)
WithoutFailures(rs) ==
    IF rs = <<>> THEN <<>>
    ELSE (IF Head(rs).success THEN <<Head(rs)>> ELSE <<>>) \o WithoutFailures(Tail(rs))

\* C8: with a successful result, runs is the length of the list and
\* successful_runs the number of successful results; a single successful
\* result, alone or among failed ones, gives its own values as averages and
\* 0.0 as standard deviations; the averages are those of the list without
\* its failed results.
C8_SuccessfulOnly ==
    Aggregated /\ ~NoneSuccessful(stats.inp) =>
        LET st == stats.out.v
            ok == SuccessIndexes(stats.inp)
        IN  /\ st.runs = Len(stats.inp)
            /\ st.successful_runs = Cardinality(ok)
            /\ Averages(st) = Averages(calculate_stats(WithoutFailures(stats.inp)))
            /\ Cardinality(ok) = 1 =>
                LET r == stats.inp[CHOOSE i \in ok : TRUE]
                IN  /\ st.ttft_avg = r.ttft_ms
                    /\ st.speed_avg = r.generation_speed
                    /\ st.latency_avg = r.total_latency_ms
                    /\ st.tokens_avg = Float(r.completion_tokens)
                    /\ st.ttft_std = Float(0)
                    /\ st.speed_std = Float(0)
                    /\ st.latency_std = Float(0)

C8_Witness ==
    /\ Aggregated
    /\ Len(stats.inp) = 3
    /\ Cardinality(SuccessIndexes(stats.inp)) = 1
    /\ stats.out.v.ttft_avg = Rat(501, 2)
    /\ ~stats.inp[1].success

Fetched == fetch.out.kind \in {"ok", "raise"}

\* The body is not {"data": [{...}, ...]}: no JSON text, no object, a
\* "data" that is no array, or an entry that is no object.
BrokenShape(resp) ==
    /\ resp.kind = "body"
    /\ \/ ~WellFormedJson(resp.text)
       \/ LET v == strip(resp.text)[1].v
          IN  \/ v.t # "obj"
              \/ /\ "data" \in DOMAIN v.o
                 /\ \/ v.o["data"].t # "arr"
                    \/ \E i \in DOMAIN v.o["data"].a : v.o["data"].a[i].t # "obj"

\* C9: when the request fails or the body has not the expected shape,
\* fetch_available_models returns the built-in list, as a new list, and
\* does not raise; the built-in list never changes.
C9_FallbackOnFailure ==
    /\ FALLBACK_MODELS = FALLBACK
    /\ Fetched /\ (fetch.resp.kind = "failure" \/ BrokenShape(fetch.resp)) =>
        /\ fetch.out.kind = "ok"
        /\ fetch.out.v.fresh
        /\ IsPrefix(FALLBACK, fetch.out.v.items)

\* C10: main returns 1 when no credential is resolvable (before any network
\* request) or when the resolved model list is empty, returns 0 in every
\* other run, and never ends otherwise.
C10_ExitCodes ==
    /\ pc # "raised"
    /\ pc = "exit" =>
        /\ exit_code \in {JInt(0), JInt(1)}
        /\ exit_code = JInt(1) <=> (api_key = "" \/ (~args.list_models /\ models = <<>>))
        /\ api_key = "" => requests = <<>>

(***************************************************************************)
(* What a response says, read off its lines without the parser.            *)
(***************************************************************************)
HasDoc(line) ==
    Len(line) = 7 /\ SubSeq(line, 1, 6) = DATA_PREFIX /\ line[7].k = "js"

\* The text of the increment a line carries, "" when it carries none.
LineText(line) ==
    IF ~HasDoc(line) THEN ""
    ELSE LET v == line[7].v
         IN  IF v.t # "obj" \/ "choices" \notin DOMAIN v.o THEN ""
             ELSE IF v.o["choices"].t # "arr" \/ v.o["choices"].a = <<>> THEN ""
             ELSE LET c == v.o["choices"].a[1]
                  IN  IF "delta" \notin DOMAIN c.o THEN ""
                      ELSE TextOf(c.o["delta"], "content")
                           \o TextOf(c.o["delta"], "reasoning_content")

\* No line of the sequence carries text.
NoText(lines) == \A i \in DOMAIN lines : LineText(lines[i]) = ""

LastResult(rs) == rs[Len(rs)]

TrialSucceeds == Len(results') = Len(results) + 1 /\ LastResult(results').success

\* C11: within a trial the time-to-first-token timestamp is unset exactly
\* while no line with text has arrived, is set to the clock's reading at the
\* step that delivers the first such line, and never changes afterwards; a
\* trial that ends without text has ttft_ms equal to total_latency_ms.
C11_TtftSetOnce ==
    [][/\ pc' = "trial_stream" =>
            /\ trial'.ttft_time = None <=> NoText(stream')
            /\ trial'.ttft_time # None => trial'.ttft_time.n <= clock'
       /\ pc = "trial_stream" /\ pc' = "trial_stream" =>
            /\ trial.ttft_time # None => trial'.ttft_time = trial.ttft_time
            /\ trial.ttft_time = None /\ trial'.ttft_time # None =>
                    trial'.ttft_time = JInt(clock')
       /\ TrialSucceeds =>
            LET r == LastResult(results')
            IN  /\ NoText(stream) => r.ttft_ms = r.total_latency_ms
                /\ ~NoText(stream) =>
                        r.ttft_ms = Float((trial.ttft_time.n - trial.start_time) * MS_PER_S)
      ]_vars

C11_Witness ==
    /\ pc = "trial_stream"
    /\ stream = <<UsageLine(10, 20, 30), ContentLine, ContentLine>>
    /\ trial.ttft_time # None
    /\ trial.start_time < trial.ttft_time.n

\* The count a line reports for a usage field, 0 when it reports none.
Reported(line, field) ==
    IF ~HasDoc(line) THEN 0
    ELSE LET v == line[7].v
         IN  IF v.t # "obj" \/ "usage" \notin DOMAIN v.o THEN 0
             ELSE IF v.o["usage"].t # "obj" \/ field \notin DOMAIN v.o["usage"].o THEN 0
             ELSE IF v.o["usage"].o[field].t # "int" THEN 0
             ELSE v.o["usage"].o[field].n

RECURSIVE LastNonZero(_, _)
LastNonZero(lines, field) ==
    IF lines = <<>> THEN 0
    ELSE LET n == Reported(lines[Len(lines)], field)
         IN  IF n # 0 THEN n ELSE LastNonZero(SubSeq(lines, 1, Len(lines) - 1), field)

\* The last request was a timed trial that returned a successful result;
\* stream holds the lines it read.
Succeeded == pc = "runs" /\ ri > 0 /\ results # <<>> /\ LastResult(results).success

\* C12 as stated: in the result of a successful trial each of prompt_tokens,
\* completion_tokens and total_tokens is the last non-zero value the stream
\* reported for it, 0 if there was none.
C12_LastNonZeroAsStated ==
    Succeeded =>
        LET r == LastResult(results)
        IN  /\ r.prompt_tokens = LastNonZero(stream, "prompt_tokens")
            /\ r.completion_tokens = LastNonZero(stream, "completion_tokens")
            /\ r.total_tokens = LastNonZero(stream, "total_tokens")

\* C12, amended: during a trial each tracked counter is the last non-zero
\* value reported for it so far, 0 if none; in the result of a successful
\* trial prompt_tokens and total_tokens are those values, and
\* completion_tokens is the last non-zero reported value, or, when none was
\* reported, 0 without text and an estimate of at least 1 with text.
C12_LastNonZeroWins ==
    /\ pc = "trial_stream" =>
            /\ trial.prompt_tokens = LastNonZero(stream, "prompt_tokens")
            /\ trial.completion_tokens = LastNonZero(stream, "completion_tokens")
            /\ trial.total_tokens = LastNonZero(stream, "total_tokens")
    /\ Succeeded =>
        LET r == LastResult(results)
            reported == LastNonZero(stream, "completion_tokens")
        IN  /\ r.prompt_tokens = LastNonZero(stream, "prompt_tokens")
            /\ r.total_tokens = LastNonZero(stream, "total_tokens")
            /\ reported # 0 => r.completion_tokens = reported
            /\ reported = 0 /\ NoText(stream) => r.completion_tokens = 0
            /\ reported = 0 /\ ~NoText(stream) => r.completion_tokens >= 1

C12_Witness ==
    /\ Succeeded
    /\ stream = <<UsageLine(10, 20, 30), UsageLine(11, 0, 0), ContentLine>>
    /\ LastResult(results).prompt_tokens = 11
    /\ LastResult(results).completion_tokens = 20
    /\ LastResult(results).total_tokens = 30

\* The number of characters of text the lines carry.
RECURSIVE TotalLength(_)
TotalLength(lines) ==
    IF lines = <<>> THEN 0 ELSE Len(LineText(Head(lines))) + TotalLength(Tail(lines))

\* C13: in the result of a successful trial completion_tokens is the last
\* non-zero count the stream reported; without one it is max(1, L div 4)
\* for L > 0 characters of text, and 0 for none.
C13_CompletionTokens ==
    Succeeded =>
        LET r == LastResult(results)
            reported == LastNonZero(stream, "completion_tokens")
            L == TotalLength(stream)
        IN  r.completion_tokens =
                IF reported # 0 THEN reported
                ELSE IF L > 0 THEN (IF L \div 4 >= 1 THEN L \div 4 ELSE 1)
                ELSE 0

C13_Witness ==
    /\ Succeeded
    /\ stream = <<ContentLine, ReasoningLine, ContentLine>>
    /\ LastResult(results).completion_tokens = 3

\* C14: the generation_speed of a successful trial is its completion_tokens
\* divided by (end timestamp - time-to-first-token timestamp), whatever the
\* timestamp's value, and 0 when that difference is not positive; a trial
\* without text has generation_speed 0.
C14_GenerationSpeed ==
    [][TrialSucceeds =>
        LET r == LastResult(results')
            end_time == clock'
            ttft_time == IF trial.ttft_time = None THEN end_time ELSE trial.ttft_time.n
            elapsed == end_time - ttft_time
        IN  /\ r.generation_speed =
                    IF elapsed > 0 THEN Rat(r.completion_tokens, elapsed) ELSE Float(0)
            /\ NoText(stream) => r.generation_speed = Float(0)
      ]_vars

\* C15: when main has run the benchmarks and returned, all_stats holds one
\* ModelStats per entry of the configured model list, in list order, each
\* with runs equal to the configured run count.
C15_OneStatsPerModel ==
    pc = "exit" /\ ~args.list_models /\ cfg.models # <<>> =>
        /\ Len(all_stats) = Len(cfg.models)
        /\ \A i \in DOMAIN all_stats :
                i \in DOMAIN cfg.models =>
                    /\ all_stats[i].model = cfg.models[i]
                    /\ all_stats[i].runs = cfg.runs

====
